---------------------------- MODULE Spec2Model ----------------------------
(***************************************************************************)
(* A model of the in-memory file manager of main.cpp: the Folder / File    *)
(* heap objects, the FileStorage that owns the root, and FileManager's     *)
(* navigation and CRUD operations.                                         *)
(*                                                                         *)
(* Strings are sequences of one-character strings, so that splitFilePath,  *)
(* throwIfNameInvalid and getFileExtension can be computed character by    *)
(* character as the code does.  The heap is two functions from addresses  *)
(* to objects; a pointer is an address, nullptr is 0.  A deleted object    *)
(* keeps its address and its stale contents, with its destroyed counter    *)
(* raised, for as long as some pointer still leads to it, so that dangling *)
(* pointers and double deletes stay visible; once nothing leads to it the  *)
(* address is released and `new` may hand it out again.                    *)
(***************************************************************************)
EXTENDS Integers, Sequences, FiniteSets, TLC

(* ---- bounds ---- *)
\* number of Folder objects the heap can hold at a time, the root included
MaxFolders == 3
\* number of File objects the heap can hold at a time
MaxFiles == 1

\* length of the longest path handed to splitFilePath
MaxPathLen == 4

(* ---- characters and strings ---- *)
SEP == "/"
DOT == "."
Slash == <<SEP>>
DotDot == <<DOT, DOT>>
Empty == <<>>

\* bare names handed to the CRUD operations
FolderNames == { <<"a">>, DotDot, <<"a", SEP, "b">> }
FileNames == { <<"a", DOT, "t">>, <<"a", SEP, "b">> }
Contents == { Empty, <<"h", "u", "h", "u">> }
\* destinations handed to changeDirectory
Destinations ==
    { Slash, <<"a">>, DotDot, <<"a", SEP, "b">>,
      <<SEP, "a">>, <<"a", SEP, SEP, "a">> }

\* bare names handed to the folder and to the file operations alike
SharedNames == { <<"a">>, <<"b">> }
\* destinations that lead down and up again
DownAndUp == { <<"a">>, DotDot }

\* the characters of the paths handed to splitFilePath
PathAlphabet == { "a", "b", SEP }
\* every path of at most MaxPathLen characters
Paths == UNION { [ 1..n -> PathAlphabet ] : n \in 0..MaxPathLen }

nullptr == 0
rootFolder == 1

VARIABLES
    heapFolders,         \* address -> Folder object
    heapFiles,           \* address -> File object
    managers,            \* the FileManager objects constructed on the storage
    heapCapacity,        \* how many Folder and File objects the heap holds
    currentDirPointer_,  \* per manager
    currentDirPath_,     \* per manager
    storageDeleted,      \* ~FileStorage has run
    process,             \* "running", "terminated" (std::terminate or a
                         \* crash) or "undefined" (it went on after
                         \* undefined behaviour; not followed further)
    last,                \* the call that has just returned and how it
                         \* ended; op "none" between two calls
    splitArgument,       \* the argument of a call of splitFilePath
    splitResult          \* what that call gave back

vars == << heapFolders, heapFiles, managers, heapCapacity, currentDirPointer_,
           currentDirPath_, storageDeleted, process, last,
           splitArgument, splitResult >>

(* ---- Folder and File objects ---- *)

\* an empty std::unordered_map
NoEntries == [ k \in {} |-> 0 ]

\* Folder::Folder
NewFolder(fullPath, parentFolder) ==
    [ fullPath_     |-> fullPath,
      foldersCount_ |-> 0,
      filesCount_   |-> 0,
      parentFolder_ |-> parentFolder,
      folders_      |-> IF parentFolder # nullptr
                        THEN (DotDot :> parentFolder)
                        ELSE NoEntries,
      files_        |-> NoEntries,
      destroyed     |-> 0 ]

\* File::File
NewFile(fullPath, fileExtension, content) ==
    [ fullPath_      |-> fullPath,
      fileSize_      |-> Len(content),
      fileExtension_ |-> fileExtension,
      content_       |-> content,
      destroyed      |-> 0 ]

\* updateContent that forgets the size
updateContentOnly(file, newFileContent) ==
    [ file EXCEPT !.content_ = newFileContent ]

\* File::updateContent
updateContent(file, newFileContent) ==
    [ file EXCEPT !.content_ = newFileContent,
                  !.fileSize_ = Len(newFileContent) ]

\* std::unordered_map::erase
Erase(map, key) == [ k \in (DOMAIN map) \ {key} |-> map[k] ]

\* operator[] assignment on std::unordered_map
Put(map, key, value) ==
    [ k \in (DOMAIN map) \cup {key} |-> IF k = key THEN value ELSE map[k] ]

\* Folder::addFolder
addFolder(folder, newFolderName, newFolderPointer) ==
    [ folder EXCEPT !.folders_ = Put(@, newFolderName, newFolderPointer),
                    !.foldersCount_ = @ + 1 ]

\* addFile on a folder that keeps folders and files in one namespace: the new
\* file takes the name over from a child folder that has it
addFileSharedNamespace(folder, newFileName, newFilePointer) ==
    [ folder EXCEPT !.files_ = Put(@, newFileName, newFilePointer),
                    !.filesCount_ = @ + 1,
                    !.folders_ = Erase(@, newFileName) ]

\* Folder::addFile
addFile(folder, newFileName, newFilePointer) ==
    [ folder EXCEPT !.files_ = Put(@, newFileName, newFilePointer),
                    !.filesCount_ = @ + 1 ]

(* ---- teardown ---- *)

\* a destructor that deletes no child folder
DeletedByDestructorNone(fo, f) == {}

\* the children ~Folder deletes: every entry of folders_ whose key is not ".."
DeletedByDestructor(fo, f) ==
    { fo[f].folders_[n] : n \in (DOMAIN fo[f].folders_) \ {DotDot} }

\* every Folder object whose destructor runs when f is deleted
RECURSIVE DestructorRuns(_, _)
DestructorRuns(fo, f) ==
    {f} \cup UNION { DestructorRuns(fo, c) : c \in DeletedByDestructor(fo, f) }

\* every File object deleted when f is deleted
FilesDeleted(fo, f) ==
    UNION { { fo[g].files_[n] : n \in DOMAIN fo[g].files_ } :
            g \in DestructorRuns(fo, f) }

Bump(n) == IF n < 2 THEN n + 1 ELSE 2

\* Folder::~Folder, on the folder heap
DestroyFolders(fo, f) ==
    [ g \in DOMAIN fo |->
        IF g \in DestructorRuns(fo, f)
        THEN [ fo[g] EXCEPT !.destroyed = Bump(@) ]
        ELSE fo[g] ]

\* Folder::~Folder, on the file heap
DestroyFiles(fo, fi, f) ==
    [ x \in DOMAIN fi |->
        IF x \in FilesDeleted(fo, f)
        THEN [ fi[x] EXCEPT !.destroyed = Bump(@) ]
        ELSE fi[x] ]

(* ---- the heap ---- *)

\* every pointer a Folder object holds
PointersOf(folder) ==
    { folder.folders_[n] : n \in DOMAIN folder.folders_ }
        \cup ({ folder.parentFolder_ } \ { nullptr })

\* the addresses that can be reached from S by following pointers
RECURSIVE Closure(_, _)
Closure(fo, S) ==
    LET T == S \cup UNION { PointersOf(fo[f]) : f \in S }
    IN  IF T = S THEN S ELSE Closure(fo, T)

\* the Folder objects that stay in the heap: those not deleted, and the
\* deleted ones that a pointer still leads to (or that were deleted twice)
KeptFolders(fo, pointers) ==
    Closure(fo, { rootFolder } \cup pointers
                  \cup { f \in DOMAIN fo : fo[f].destroyed # 1 })

\* operator delete on the folder heap: the memory of a deleted object that
\* nothing points at any more is released
ReleaseFolders(fo, pointers) ==
    [ f \in KeptFolders(fo, pointers) |-> fo[f] ]

\* operator delete on the file heap
ReleaseFiles(fo, fi, pointers) ==
    LET kept == KeptFolders(fo, pointers)
        held == UNION { { fo[f].files_[n] : n \in DOMAIN fo[f].files_ } :
                        f \in kept }
    IN  [ x \in { y \in DOMAIN fi : fi[y].destroyed # 1 \/ y \in held }
            |-> fi[x] ]

\* operator new: the lowest free address, 0 when the heap is full
NewAddress(heap, max) ==
    LET free == { a \in 1..max : a \notin DOMAIN heap }
    IN  IF free = {} THEN nullptr
        ELSE CHOOSE a \in free : \A b \in free : a <= b

(* ---- FileManager's static helpers ---- *)

\* name.find('/') != npos
HasSeparator(name) == \E i \in 1..Len(name) : name[i] = SEP

\* a name check that lets every name through
throwIfNameInvalidNever(name) == FALSE

\* FileManager::throwIfNameInvalid : TRUE when it throws
throwIfNameInvalid(name) == HasSeparator(name)

RECURSIVE Repeat(_, _)
Repeat(c, n) == IF n <= 0 THEN <<>> ELSE <<c>> \o Repeat(c, n - 1)

\* FileManager::getFileExtension
getFileExtension(fileName) ==
    LET dots == { i \in 1..Len(fileName) : fileName[i] = DOT }
    IN  IF dots = {} THEN Empty
        ELSE LET i == CHOOSE d \in dots : \A e \in dots : e <= d
             IN  Repeat(fileName[i], Len(fileName) - i)

\* the inner while loop of splitFilePath: the first position from index on
\* (0-based) that holds a separator, or the size
RECURSIVE SkipToSeparator(_, _)
SkipToSeparator(filePath, index) ==
    IF index < Len(filePath) /\ filePath[index + 1] # SEP
    THEN SkipToSeparator(filePath, index + 1)
    ELSE index

\* the outer while loop without its test for an adjacent separator
RECURSIVE SplitLoopUnchecked(_, _, _)
SplitLoopUnchecked(filePath, index, splits) ==
    IF index < Len(filePath)
    THEN LET stop == SkipToSeparator(filePath, index)
             curSplit == SubSeq(filePath, index + 1, stop)
         IN  SplitLoopUnchecked(filePath, stop + 1, Append(splits, curSplit))
    ELSE [ thrown |-> FALSE, splits |-> splits ]

\* the outer while loop of splitFilePath
RECURSIVE SplitLoop(_, _, _)
SplitLoop(filePath, index, splits) ==
    IF index < Len(filePath)
    THEN LET stop == SkipToSeparator(filePath, index)
             curSplit == SubSeq(filePath, index + 1, stop)
         IN  IF stop + 1 < Len(filePath) /\ filePath[stop + 2] = SEP
             THEN [ thrown |-> TRUE, splits |-> <<>> ]
             ELSE SplitLoop(filePath, stop + 1, Append(splits, curSplit))
    ELSE [ thrown |-> FALSE, splits |-> splits ]

\* FileManager::splitFilePath
splitFilePath(filePath) ==
    IF Len(filePath) = 0 THEN [ thrown |-> FALSE, splits |-> <<>> ]
    ELSE IF filePath[1] = SEP THEN [ thrown |-> TRUE, splits |-> <<>> ]
    ELSE SplitLoop(filePath, 0, <<>>)

\* the for loop of changeDirectory: found is FALSE when a segment is missing,
\* ub is TRUE when a deleted Folder object was read on the way
RECURSIVE Walk(_, _, _, _)
Walk(fo, tempDirPointer, names, ub) ==
    IF names = <<>>
    THEN [ found |-> TRUE, pointer |-> tempDirPointer, ub |-> ub ]
    ELSE LET ub2 == ub \/ fo[tempDirPointer].destroyed > 0
         IN  IF Head(names) \notin DOMAIN fo[tempDirPointer].folders_
             THEN [ found |-> FALSE, pointer |-> tempDirPointer, ub |-> ub2 ]
             ELSE Walk(fo, fo[tempDirPointer].folders_[Head(names)],
                       Tail(names), ub2)

(* ---- initial state ---- *)

\* how a call ended: freed counts the destructors the call ran
Outcome(op, kind, esc, freed) ==
    [ op |-> op, outcome |-> kind, escaped |-> esc, freed |-> freed ]

\* before splitFilePath is called
NotSplit == [ called |-> FALSE, thrown |-> FALSE, splits |-> <<>> ]

\* FileStorage::FileStorage and FileManager::FileManager
InitStorage(ms) ==
    /\ heapFolders = (rootFolder :> NewFolder(Slash, nullptr))
    /\ heapFiles = NoEntries
    /\ managers = ms
    /\ currentDirPointer_ = [ m \in ms |-> rootFolder ]
    /\ currentDirPath_ = [ m \in ms |-> Slash ]
    /\ storageDeleted = FALSE
    /\ process = "running"
    /\ last = Outcome("none", "ok", FALSE, 0)

\* a heap with room for MaxFolders Folder and MaxFiles File objects
DefaultCapacity == [ folders |-> MaxFolders, files |-> MaxFiles ]

\* a program that uses the managers ms and calls no helper by itself
InitWith(ms) ==
    /\ InitStorage(ms)
    /\ heapCapacity = DefaultCapacity
    /\ splitArgument = Empty
    /\ splitResult = NotSplit

Init == InitWith({1})

Running == process = "running" /\ ~storageDeleted

\* the caller is between two calls: the outcome of the call before has been
\* taken
BetweenCalls == Running /\ last.op = "none"

\* the pointers the managers hold
ManagerPointers(pointer) == { pointer[m] : m \in DOMAIN pointer }

\* the process dies in the middle of a call, leaving the heap as fo, fi
Abort(op, fo, fi) ==
    /\ process' = "terminated"
    /\ last' = Outcome(op, "crash", FALSE, 0)
    /\ heapFolders' = fo
    /\ heapFiles' = fi
    /\ UNCHANGED << managers, heapCapacity, splitArgument, splitResult,
                    currentDirPointer_, currentDirPath_, storageDeleted >>

\* a call that ends without touching the tree or the manager; ub is TRUE
\* when it read a deleted object on the way
Report(op, kind, esc, ub) ==
    /\ last' = Outcome(op, kind, esc, 0)
    /\ process' = IF ub THEN "undefined" ELSE process
    /\ UNCHANGED << heapFolders, heapFiles, managers, heapCapacity,
                    splitArgument, splitResult, currentDirPointer_,
                    currentDirPath_, storageDeleted >>

\* a call that ends well and leaves the heap as fo, fi
Commit(op, fo, fi, ub, freed) ==
    /\ heapFolders' = ReleaseFolders(fo, ManagerPointers(currentDirPointer_))
    /\ heapFiles' = ReleaseFiles(fo, fi, ManagerPointers(currentDirPointer_))
    /\ last' = Outcome(op, "ok", FALSE, freed)
    /\ process' = IF ub THEN "undefined" ELSE process
    /\ UNCHANGED << managers, heapCapacity, splitArgument, splitResult,
                    currentDirPointer_, currentDirPath_, storageDeleted >>

\* a deleted Folder object is read through the manager's current pointer
Dangling(m) == heapFolders[currentDirPointer_[m]].destroyed > 0

\* the existence check left out
folderExistsUnchecked(folder, folderName) == FALSE

\* currentDirPointer_->folders_.count(folderName) != 0
folderExists(folder, folderName) == folderName \in DOMAIN folder.folders_

\* currentDirPointer_->files_.count(fileName) != 0
fileExists(folder, fileName) == fileName \in DOMAIN folder.files_

\* throw std::runtime_error("... already exists"): no handler of the
\* operation catches it, the caller gets the exception
throwAlreadyExists(op, m) == Report(op, "AlreadyExists", TRUE, Dangling(m))

\* the existence check made after the removal: erase of the absent key is
\* a no-op, the count is decremented all the same
throwNotFoundAfterRemove(op, m) ==
    /\ heapFolders' =
           [ heapFolders EXCEPT
               ![currentDirPointer_[m]].foldersCount_ =
                   IF op = "deleteFolder" THEN @ - 1 ELSE @,
               ![currentDirPointer_[m]].filesCount_ =
                   IF op = "deleteFile" THEN @ - 1 ELSE @ ]
    /\ last' = Outcome(op, "NotFound", TRUE, 0)
    /\ process' = IF Dangling(m) THEN "undefined" ELSE process
    /\ UNCHANGED << heapFiles, managers, heapCapacity, splitArgument,
                    splitResult, currentDirPointer_, currentDirPath_,
                    storageDeleted >>

\* throw std::runtime_error("... doesn't exists"), likewise
throwNotFound(op, m) == Report(op, "NotFound", TRUE, Dangling(m))

\* catch (std::invalid_argument &) of the CRUD operations
catchInvalidArgument(op) == Report(op, "InvalidName", FALSE, FALSE)

\* changeDirectory with the loop advancing currentDirPointer_ itself instead
\* of tempDirPointer: the progress made before the throw stays
changeDirectoryCatchPartial(m, kind, walk) ==
    /\ currentDirPointer_' = [ currentDirPointer_ EXCEPT ![m] = walk.pointer ]
    /\ last' = Outcome("changeDirectory", kind, FALSE, 0)
    /\ process' = IF walk.ub THEN "undefined" ELSE process
    /\ UNCHANGED << heapFolders, heapFiles, managers, heapCapacity,
                    splitArgument, splitResult, currentDirPath_,
                    storageDeleted >>

\* catch (const std::runtime_error &) of changeDirectory: walk is the state
\* of the loop when the exception was thrown
changeDirectoryCatch(m, kind, walk) ==
    Report("changeDirectory", kind, FALSE, walk.ub)

(* ---- FileManager's operations ---- *)
(* crash is the choice the build makes when a call runs into undefined      *)
(* behaviour: the process dies there, or it goes on with the stale contents *)
(* of the deleted object.                                                   *)

\* a comparison that never finds the destination equal to the current path
samePathNever(m, destinationFolder) == FALSE

\* currentDirPath_ == destinationFolder
samePath(m, destinationFolder) == currentDirPath_[m] = destinationFolder

\* FileManager::changeDirectory
changeDirectory(m, destinationFolder, relative, crash) ==
    LET start == IF relative THEN currentDirPointer_[m] ELSE rootFolder
        split == splitFilePath(destinationFolder)
        walk  == Walk(heapFolders, start, split.splits, FALSE)
        moved == [ currentDirPointer_ EXCEPT ![m] = walk.pointer ]
    IN
    /\ BetweenCalls
    /\ IF samePath(m, destinationFolder)
       THEN /\ ~crash
            /\ Report("changeDirectory", "same", FALSE, FALSE)
       ELSE IF split.thrown
       THEN /\ ~crash
            /\ changeDirectoryCatch(m, "MalformedPath",
                                    [ found |-> FALSE, pointer |-> start,
                                      ub |-> FALSE ])
       ELSE IF crash
       THEN /\ walk.ub
            /\ Abort("changeDirectory", heapFolders, heapFiles)
       ELSE IF ~walk.found
       THEN changeDirectoryCatch(m, "NotFound", walk)
       ELSE /\ currentDirPointer_' = moved
            /\ currentDirPath_' =
                   [ currentDirPath_ EXCEPT ![m] = destinationFolder ]
            /\ heapFolders' =
                   ReleaseFolders(heapFolders, ManagerPointers(moved))
            /\ heapFiles' =
                   ReleaseFiles(heapFolders, heapFiles, ManagerPointers(moved))
            /\ last' = Outcome("changeDirectory", "ok", FALSE, 0)
            /\ process' = IF walk.ub THEN "undefined" ELSE process
            /\ UNCHANGED << managers, heapCapacity, splitArgument,
                            splitResult, storageDeleted >>

\* FileManager::createFolder
createFolder(m, folderName, crash) ==
    LET cur == currentDirPointer_[m]
        newFolderPath == currentDirPath_[m] \o Slash \o folderName
        newFolderPointer == NewAddress(heapFolders, heapCapacity.folders)
    IN
    /\ BetweenCalls
    /\ IF throwIfNameInvalid(folderName)
       THEN /\ ~crash
            /\ catchInvalidArgument("createFolder")
       ELSE IF crash
       THEN /\ Dangling(m)
            /\ Abort("createFolder", heapFolders, heapFiles)
       ELSE IF folderExists(heapFolders[cur], folderName)
       THEN throwAlreadyExists("createFolder", m)
       ELSE /\ newFolderPointer # nullptr
            /\ Commit("createFolder",
                      [ heapFolders EXCEPT
                          ![cur] = addFolder(@, folderName, newFolderPointer) ]
                        @@ (newFolderPointer :> NewFolder(newFolderPath, cur)),
                      heapFiles, Dangling(m), 0)

\* FileManager::createFile
createFile(m, fileName, fileContent, crash) ==
    LET cur == currentDirPointer_[m]
        newFilePath == currentDirPath_[m] \o Slash \o fileName
        extension == getFileExtension(fileName)
        newFilePointer == NewAddress(heapFiles, heapCapacity.files)
    IN
    /\ BetweenCalls
    /\ IF throwIfNameInvalid(fileName)
       THEN /\ ~crash
            /\ catchInvalidArgument("createFile")
       ELSE IF crash
       THEN /\ Dangling(m)
            /\ Abort("createFile", heapFolders, heapFiles)
       ELSE IF fileExists(heapFolders[cur], fileName)
       THEN throwAlreadyExists("createFile", m)
       ELSE /\ newFilePointer # nullptr
            /\ Commit("createFile",
                      [ heapFolders EXCEPT
                          ![cur] = addFile(@, fileName, newFilePointer) ],
                      heapFiles @@
                        (newFilePointer :>
                           NewFile(newFilePath, extension, fileContent)),
                      Dangling(m), 0)

\* FileManager::updateFile
updateFile(m, fileName, fileContent, crash) ==
    LET cur == currentDirPointer_[m]
    IN
    /\ BetweenCalls
    /\ IF throwIfNameInvalid(fileName)
       THEN /\ ~crash
            /\ catchInvalidArgument("updateFile")
       ELSE IF crash
       THEN /\ Dangling(m)
            /\ Abort("updateFile", heapFolders, heapFiles)
       ELSE IF ~fileExists(heapFolders[cur], fileName)
       THEN throwNotFound("updateFile", m)
       ELSE Commit("updateFile", heapFolders,
                   [ heapFiles EXCEPT
                       ![heapFolders[cur].files_[fileName]] =
                           updateContent(@, fileContent) ],
                   Dangling(m), 0)

\* FileManager::printFileContents, declared noexcept: an exception that
\* leaves it calls std::terminate
printFileContents(m, fileName, crash) ==
    LET cur == currentDirPointer_[m]
    IN
    /\ BetweenCalls
    /\ IF throwIfNameInvalid(fileName)
       THEN /\ ~crash
            /\ catchInvalidArgument("printFileContents")
       ELSE IF crash
       THEN /\ Dangling(m)
            /\ Abort("printFileContents", heapFolders, heapFiles)
       ELSE IF ~fileExists(heapFolders[cur], fileName)
       THEN /\ process' = "terminated"
            /\ last' = Outcome("printFileContents", "NotFound", TRUE, 0)
            /\ UNCHANGED << heapFolders, heapFiles, managers,
                            heapCapacity, splitArgument, splitResult,
                            currentDirPointer_, currentDirPath_,
                            storageDeleted >>
       ELSE Report("printFileContents", "ok", FALSE, Dangling(m))

\* Folder::removeFolder, up to and including `delete folders_[folderName]`
removeFolderDelete(fo, fi, cur, folderName) ==
    [ folders |-> DestroyFolders(fo, fo[cur].folders_[folderName]),
      files   |-> DestroyFiles(fo, fi, fo[cur].folders_[folderName]) ]

\* Folder::removeFolder
removeFolder(fo, fi, cur, folderName) ==
    LET deleted == removeFolderDelete(fo, fi, cur, folderName)
    IN  [ folders |-> [ deleted.folders EXCEPT
                          ![cur].folders_ = Erase(@, folderName),
                          ![cur].foldersCount_ = @ - 1 ],
          files   |-> deleted.files ]

\* Folder::removeFile
removeFile(fo, fi, cur, fileName) ==
    [ folders |-> [ fo EXCEPT ![cur].files_ = Erase(@, fileName),
                              ![cur].filesCount_ = @ - 1 ],
      files   |-> [ fi EXCEPT ![fo[cur].files_[fileName]].destroyed =
                                  Bump(@) ] ]

\* FileManager::deleteFolder.  crash is "no", "before" (the process dies on
\* reading a deleted current folder or on deleting a folder a second time)
\* or "after" (it dies when removeFolder goes on in a folder that its own
\* delete has just destroyed)
deleteFolder(m, folderName, crash) ==
    LET cur == currentDirPointer_[m]
        exists == folderExists(heapFolders[cur], folderName)
        target == heapFolders[cur].folders_[folderName]
        deleted == removeFolderDelete(heapFolders, heapFiles, cur, folderName)
        removed == removeFolder(heapFolders, heapFiles, cur, folderName)
        ubBefore == \/ Dangling(m)
                    \/ exists /\ \E g \in DestructorRuns(heapFolders, target) :
                                    heapFolders[g].destroyed > 0
        ubAfter == deleted.folders[cur].destroyed > 0
    IN
    /\ BetweenCalls
    /\ IF throwIfNameInvalid(folderName)
       THEN /\ crash = "no"
            /\ catchInvalidArgument("deleteFolder")
       ELSE IF crash = "before"
       THEN /\ ubBefore
            /\ Abort("deleteFolder", heapFolders, heapFiles)
       ELSE IF ~exists
       THEN /\ crash = "no"
            /\ throwNotFound("deleteFolder", m)
       ELSE IF crash = "after"
       THEN /\ ubAfter
            /\ Abort("deleteFolder", deleted.folders, deleted.files)
       ELSE Commit("deleteFolder", removed.folders, removed.files,
                   ubBefore \/ ubAfter,
                   Cardinality(DestructorRuns(heapFolders, target))
                   + Cardinality(FilesDeleted(heapFolders, target)))

\* FileManager::deleteFile
deleteFile(m, fileName, crash) ==
    LET cur == currentDirPointer_[m]
        removed == removeFile(heapFolders, heapFiles, cur, fileName)
    IN
    /\ BetweenCalls
    /\ IF throwIfNameInvalid(fileName)
       THEN /\ ~crash
            /\ catchInvalidArgument("deleteFile")
       ELSE IF crash
       THEN /\ Dangling(m)
            /\ Abort("deleteFile", heapFolders, heapFiles)
       ELSE IF ~fileExists(heapFolders[cur], fileName)
       THEN throwNotFound("deleteFile", m)
       ELSE Commit("deleteFile", removed.folders, removed.files,
                   Dangling(m), 1)

\* FileStorage::~FileStorage
DestroyFileStorage(crash) ==
    LET ub == \E g \in DestructorRuns(heapFolders, rootFolder) :
                 heapFolders[g].destroyed > 0
    IN
    /\ BetweenCalls
    /\ IF crash
       THEN /\ ub
            /\ Abort("~FileStorage", heapFolders, heapFiles)
       ELSE /\ heapFolders' = DestroyFolders(heapFolders, rootFolder)
            /\ heapFiles' = DestroyFiles(heapFolders, heapFiles, rootFolder)
            /\ storageDeleted' = TRUE
            /\ last' = Outcome("~FileStorage", "ok", FALSE,
                                Cardinality(DestructorRuns(heapFolders,
                                                           rootFolder))
                                + Cardinality(FilesDeleted(heapFolders,
                                                           rootFolder)))
            /\ process' = IF ub THEN "undefined" ELSE process
            /\ UNCHANGED << managers, heapCapacity, splitArgument,
                            splitResult, currentDirPointer_,
                            currentDirPath_ >>

\* main: the call has returned (or the caller has caught what it threw)
\* and the caller goes on to its next statement
NextStatement ==
    /\ Running
    /\ last.op # "none"
    /\ last' = Outcome("none", "ok", FALSE, 0)
    /\ UNCHANGED << heapFolders, heapFiles, managers, heapCapacity,
                    splitArgument, splitResult, currentDirPointer_,
                    currentDirPath_, storageDeleted, process >>

Next ==
    \/ \E m \in managers, d \in Destinations, r \in BOOLEAN, c \in BOOLEAN :
          changeDirectory(m, d, r, c)
    \/ \E m \in managers, n \in FolderNames, c \in BOOLEAN :
          createFolder(m, n, c)
    \/ \E m \in managers, n \in FileNames, t \in Contents, c \in BOOLEAN :
          createFile(m, n, t, c)
    \/ \E m \in managers, n \in FileNames, t \in Contents, c \in BOOLEAN :
          updateFile(m, n, t, c)
    \/ \E m \in managers, n \in FileNames, c \in BOOLEAN :
          printFileContents(m, n, c)
    \/ \E m \in managers, n \in FolderNames,
          c \in {"no", "before", "after"} :
          deleteFolder(m, n, c)
    \/ \E m \in managers, n \in FileNames, c \in BOOLEAN :
          deleteFile(m, n, c)
    \/ \E c \in BOOLEAN : DestroyFileStorage(c)
    \/ NextStatement

Spec == Init /\ [][Next]_vars

\* a caller that gives the same names to folders and to files
NextNamespaces ==
    \/ \E m \in managers, d \in DownAndUp, c \in BOOLEAN :
          changeDirectory(m, d, TRUE, c)
    \/ \E m \in managers, n \in SharedNames, c \in BOOLEAN :
          createFolder(m, n, c)
    \/ \E m \in managers, n \in SharedNames, t \in Contents, c \in BOOLEAN :
          createFile(m, n, t, c)
    \/ \E m \in managers, n \in SharedNames,
          c \in {"no", "before", "after"} :
          deleteFolder(m, n, c)
    \/ \E m \in managers, n \in SharedNames, c \in BOOLEAN :
          deleteFile(m, n, c)
    \/ NextStatement

SpecNamespaces == Init /\ [][NextNamespaces]_vars

\* two managers constructed on the same storage
InitTwoManagers == InitWith({ 1, 2 })

\* a caller that goes down and up with either manager and creates and
\* deletes the folder "a" through either of them
NextTwoManagers ==
    \/ \E m \in managers, d \in DownAndUp, c \in BOOLEAN :
          changeDirectory(m, d, TRUE, c)
    \/ \E m \in managers, c \in BOOLEAN :
          createFolder(m, <<"a">>, c)
    \/ \E m \in managers, c \in {"no", "before", "after"} :
          deleteFolder(m, <<"a">>, c)
    \/ NextStatement

SpecTwoManagers == InitTwoManagers /\ [][NextTwoManagers]_vars

\* a program whose heap has room for one more file
InitPaths ==
    /\ InitStorage({1})
    /\ heapCapacity = [ folders |-> MaxFolders, files |-> MaxFiles + 1 ]
    /\ splitArgument = Empty
    /\ splitResult = NotSplit

\* a caller that only changes directory and creates folders and files
NextPaths ==
    \/ \E m \in managers, d \in DownAndUp, r \in BOOLEAN, c \in BOOLEAN :
          changeDirectory(m, d, r, c)
    \/ \E m \in managers, n \in DownAndUp, c \in BOOLEAN :
          createFolder(m, n, c)
    \/ \E m \in managers, t \in Contents, c \in BOOLEAN :
          createFile(m, <<"a", DOT, "t">>, t, c)
    \/ NextStatement

SpecPaths == InitPaths /\ [][NextPaths]_vars

\* a program that calls splitFilePath on some path
InitSplit ==
    /\ InitStorage({1})
    /\ heapCapacity = DefaultCapacity
    /\ splitArgument \in Paths
    /\ splitResult = NotSplit

\* the call splitFilePath(splitArgument)
CallSplitFilePath ==
    /\ ~splitResult.called
    /\ splitResult' = [ called |-> TRUE,
                        thrown |-> splitFilePath(splitArgument).thrown,
                        splits |-> splitFilePath(splitArgument).splits ]
    /\ UNCHANGED << heapFolders, heapFiles, managers, heapCapacity,
                    currentDirPointer_, currentDirPath_, storageDeleted,
                    process, last, splitArgument >>

NextSplit == CallSplitFilePath

SpecSplit == InitSplit /\ [][NextSplit]_vars

(* ---- type correctness ---- *)

TypeOK ==
    /\ DOMAIN heapFolders \subseteq 1..heapCapacity.folders
    /\ DOMAIN heapFiles \subseteq 1..heapCapacity.files
    /\ rootFolder \in DOMAIN heapFolders
    /\ process \in { "running", "terminated", "undefined" }
    /\ \A m \in managers : currentDirPointer_[m] \in DOMAIN heapFolders
    /\ \A f \in DOMAIN heapFolders :
          /\ heapFolders[f].destroyed \in 0..2
          /\ \A n \in DOMAIN heapFolders[f].folders_ :
                heapFolders[f].folders_[n] \in DOMAIN heapFolders
          /\ \A n \in DOMAIN heapFolders[f].files_ :
                heapFolders[f].files_[n] \in DOMAIN heapFiles


(* ---- properties ---- *)

Live(f) == f \in DOMAIN heapFolders /\ heapFolders[f].destroyed = 0

FailureKinds == { "InvalidName", "MalformedPath", "AlreadyExists", "NotFound" }

MutatingOps ==
    { "createFolder", "createFile", "updateFile", "deleteFolder", "deleteFile" }

ManagerOps == MutatingOps \cup { "changeDirectory", "printFileContents" }

\* C1: a changeDirectory call that fails (a segment is missing, or the
\* destination is malformed) leaves every manager's current folder pointer
\* and current path string as they were: no partial progress is committed.
C1_FailedChangeDirectoryKeepsLocation ==
    [][ ( /\ last'.op = "changeDirectory"
          /\ last'.outcome \in { "NotFound", "MalformedPath" } )
        => UNCHANGED << currentDirPointer_, currentDirPath_ >> ]_vars

\* a changeDirectory has failed on a missing segment, away from the root
C1_Witness ==
    /\ last.op = "changeDirectory"
    /\ last.outcome = "NotFound"
    /\ \E m \in managers :
          /\ currentDirPointer_[m] # rootFolder
          /\ currentDirPath_[m] # Slash
          /\ folderExists(heapFolders[rootFolder], <<"a">>)

\* C2: every public operation recovers its own failures: whatever the
\* failure kind, the call ends in a reported outcome and returns normally;
\* no error leaves the operation and none ends the process.
C2_NoErrorEscapes ==
    ( last.op \in ManagerOps /\ last.outcome \in FailureKinds )
        => ( ~last.escaped /\ process # "terminated" )

\* C3: a mutating call that fails leaves the whole tree (both heaps) and
\* every manager's current location exactly as they were.
C3_FailedMutationChangesNothing ==
    [][ ( last'.op \in MutatingOps /\ last'.outcome \in FailureKinds )
        => UNCHANGED << heapFolders, heapFiles, currentDirPointer_,
                        currentDirPath_ >> ]_vars

\* a delete has failed in a tree that holds a folder and a file
C3_Witness ==
    /\ last.op \in { "deleteFolder", "deleteFile" }
    /\ last.outcome = "NotFound"
    /\ \E f \in DOMAIN heapFolders : f # rootFolder /\ Live(f)
    /\ \E x \in DOMAIN heapFiles : heapFiles[x].destroyed = 0


\* the entry n of f's folders_ is the back-reference to f's parent
BackReference(f, n) ==
    n = DotDot /\ heapFolders[f].parentFolder_ # nullptr

\* the names under which f owns a child folder
OwnedNames(f) ==
    { n \in DOMAIN heapFolders[f].folders_ : ~BackReference(f, n) }

\* C4: in every live folder the stored folder count is the number of child
\* folders in its mapping (the parent back-reference aside), the stored file
\* count is the number of files in its mapping, and neither is negative.
C4_CountsMatchMappings ==
    \A f \in DOMAIN heapFolders :
        Live(f) =>
            /\ heapFolders[f].foldersCount_ = Cardinality(OwnedNames(f))
            /\ heapFolders[f].filesCount_ =
                   Cardinality(DOMAIN heapFolders[f].files_)
            /\ heapFolders[f].foldersCount_ >= 0
            /\ heapFolders[f].filesCount_ >= 0

\* C5: the root's full path is "/" and every live child folder's full path
\* is its parent's full path followed by its own name (joined directly, or
\* by one separator).
C5_FullPathIsParentPathPlusName ==
    /\ Live(rootFolder) => heapFolders[rootFolder].fullPath_ = Slash
    /\ \A p \in DOMAIN heapFolders : \A n \in OwnedNames(p) :
          LET c == heapFolders[p].folders_[n]
          IN  ( Live(p) /\ Live(c) ) =>
                 heapFolders[c].fullPath_ \in
                     { heapFolders[p].fullPath_ \o n,
                       heapFolders[p].fullPath_ \o Slash \o n }

\* C6: changeDirectory(n, relative = true) into a child n that createFolder
\* made in the current folder F leaves the manager in that child, with the
\* child's full path as current path and the child's ".." leading back to F.
C6_ChangeIntoCreatedFolder ==
    [][ last'.op = "changeDirectory" =>
        \A m \in managers : \A n \in FolderNames :
          LET F == currentDirPointer_[m]
          IN  ( /\ Live(F)
                /\ n \in OwnedNames(F)
                /\ Live(heapFolders[F].folders_[n])
                /\ changeDirectory(m, n, TRUE, FALSE)
                /\ last'.outcome = "ok" )
              => LET c == heapFolders[F].folders_[n]
                 IN  /\ currentDirPointer_'[m] = c
                     /\ currentDirPath_'[m] = heapFolders[c].fullPath_
                     /\ DotDot \in DOMAIN heapFolders[c].folders_
                     /\ heapFolders[c].folders_[DotDot] = F ]_vars

\* C7: createFolder of a name that the current folder already holds fails
\* with AlreadyExists and changes nothing (the count stays, the first folder
\* stays); createFolder of a new name adds it and raises the count by one.
C7_SecondCreateFolderFails ==
    [][ last'.op = "createFolder" =>
        \A m \in managers : \A n \in FolderNames :
          LET F == currentDirPointer_[m]
          IN  ( /\ Live(F)
                /\ ~throwIfNameInvalid(n)
                /\ createFolder(m, n, FALSE) )
              => IF n \in DOMAIN heapFolders[F].folders_
                 THEN /\ last'.outcome = "AlreadyExists"
                      /\ UNCHANGED << heapFolders, heapFiles >>
                 ELSE /\ last'.outcome = "ok"
                      /\ n \in DOMAIN heapFolders'[F].folders_
                      /\ heapFolders'[F].folders_[n] \notin DOMAIN heapFolders
                      /\ heapFolders'[F].foldersCount_ =
                             heapFolders[F].foldersCount_ + 1 ]_vars

\* a createFolder has failed in the root, which holds one child folder that
\* has contents of its own
C7_Witness ==
    /\ last.op = "createFolder"
    /\ last.outcome = "AlreadyExists"
    /\ \E m \in managers : currentDirPointer_[m] = rootFolder
    /\ Live(rootFolder)
    /\ heapFolders[rootFolder].foldersCount_ = 1
    /\ \E n \in OwnedNames(rootFolder) :
          LET c == heapFolders[rootFolder].folders_[n]
          IN  heapFolders[c].foldersCount_ + heapFolders[c].filesCount_ > 0

\* t is reached from g by following parentFolder_
RECURSIVE HasAncestor(_, _, _)
HasAncestor(fo, g, t) ==
    LET p == fo[g].parentFolder_
    IN  /\ p # nullptr
        /\ p \in DOMAIN fo
        /\ ( p = t \/ HasAncestor(fo, p, t) )

\* the folder t and everything below it
Subtree(fo, t) == { t } \cup { g \in DOMAIN fo : HasAncestor(fo, g, t) }

\* C8: deleteFolder(n) of a child folder destroys the child and all its
\* descendants (folders and files), n does not resolve in the parent any
\* more, the parent's folder count is one less, and its file count, its
\* files and its other children are as before; deleteFolder and deleteFile
\* of an absent name fail with NotFound and change nothing.
C8_DeleteFolderCascades ==
    [][ /\ last'.op = "deleteFolder" =>
           \A m \in managers : \A n \in FolderNames :
            LET F == currentDirPointer_[m]
            IN  ( /\ Live(F)
                  /\ ~throwIfNameInvalid(n)
                  /\ ~BackReference(F, n)
                  /\ deleteFolder(m, n, "no") )
                => IF n \in DOMAIN heapFolders[F].folders_
                   THEN LET t == heapFolders[F].folders_[n]
                            gone == Subtree(heapFolders, t)
                        IN  /\ last'.outcome = "ok"
                            /\ \A g \in gone :
                                  \/ g \notin DOMAIN heapFolders'
                                  \/ heapFolders'[g].destroyed > 0
                            /\ \A g \in gone :
                               \A k \in DOMAIN heapFolders[g].files_ :
                                  LET x == heapFolders[g].files_[k]
                                  IN  \/ x \notin DOMAIN heapFiles'
                                      \/ heapFiles'[x].destroyed > 0
                            /\ n \notin DOMAIN heapFolders'[F].folders_
                            /\ ~Walk(heapFolders', F, <<n>>, FALSE).found
                            /\ heapFolders'[F].foldersCount_ =
                                   heapFolders[F].foldersCount_ - 1
                            /\ heapFolders'[F].filesCount_ =
                                   heapFolders[F].filesCount_
                            /\ heapFolders'[F].files_ = heapFolders[F].files_
                            /\ \A k \in (DOMAIN heapFolders[F].folders_) \ {n} :
                                  /\ k \in DOMAIN heapFolders'[F].folders_
                                  /\ heapFolders'[F].folders_[k] =
                                         heapFolders[F].folders_[k]
                            /\ \A g \in (DOMAIN heapFolders) \ (gone \cup {F}) :
                                  Live(g) => /\ g \in DOMAIN heapFolders'
                                             /\ heapFolders'[g] = heapFolders[g]
                            /\ \A x \in DOMAIN heapFiles :
                                  ( /\ heapFiles[x].destroyed = 0
                                    /\ \A g \in gone : \A k \in DOMAIN heapFolders[g].files_ :
                                          heapFolders[g].files_[k] # x )
                                  => /\ x \in DOMAIN heapFiles'
                                     /\ heapFiles'[x] = heapFiles[x]
                   ELSE /\ last'.outcome = "NotFound"
                        /\ UNCHANGED << heapFolders, heapFiles >>
        /\ last'.op = "deleteFile" =>
           \A m \in managers : \A n \in FileNames :
            LET F == currentDirPointer_[m]
            IN  ( /\ Live(F)
                  /\ ~throwIfNameInvalid(n)
                  /\ n \notin DOMAIN heapFolders[F].files_
                  /\ deleteFile(m, n, FALSE) )
                => /\ last'.outcome = "NotFound"
                   /\ UNCHANGED << heapFolders, heapFiles >> ]_vars

\* a deleteFolder has destroyed a child folder together with a folder and a
\* file nested in it
C8_Witness ==
    /\ last.op = "deleteFolder"
    /\ last.outcome = "ok"
    /\ last.freed >= 3
    /\ process = "running"
    /\ Live(rootFolder)
    /\ \E m \in managers : currentDirPointer_[m] = rootFolder

\* C9: ".." never names an owned child: an entry ".." of a live folder's
\* mapping is the back-reference to that folder's parent.
C9_DotDotIsOnlyBackReference ==
    \A f \in DOMAIN heapFolders :
        ( Live(f) /\ DotDot \in DOMAIN heapFolders[f].folders_ )
            => /\ heapFolders[f].parentFolder_ # nullptr
               /\ heapFolders[f].folders_[DotDot] = heapFolders[f].parentFolder_

\* every live file's size is the length of its content
FileSizeIsContentLength ==
    \A x \in DOMAIN heapFiles :
        heapFiles[x].destroyed = 0 =>
            heapFiles[x].fileSize_ = Len(heapFiles[x].content_)

\* C10: updateFile(n, c) on an existing file sets its content to c and its
\* size to the length of c and changes nothing else (path, extension, the
\* folders, the other files); on an absent name it fails with NotFound; and
\* every live file's size is always the length of its content.
C10_UpdateFileReplacesContentAndSize ==
    [][ /\ FileSizeIsContentLength
        /\ FileSizeIsContentLength'
        /\ last'.op = "updateFile" =>
           \A m \in managers : \A n \in FileNames : \A c \in Contents :
             LET F == currentDirPointer_[m]
             IN  ( /\ Live(F)
                   /\ ~throwIfNameInvalid(n)
                   /\ updateFile(m, n, c, FALSE) )
                 => IF n \in DOMAIN heapFolders[F].files_
                    THEN LET x == heapFolders[F].files_[n]
                         IN  /\ last'.outcome = "ok"
                             /\ DOMAIN heapFiles' = DOMAIN heapFiles
                             /\ heapFiles'[x] =
                                    [ heapFiles[x] EXCEPT
                                        !.content_ = c,
                                        !.fileSize_ = Len(c) ]
                             /\ \A y \in (DOMAIN heapFiles) \ {x} :
                                    heapFiles'[y] = heapFiles[y]
                             /\ heapFolders' = heapFolders
                             /\ UNCHANGED << currentDirPointer_,
                                             currentDirPath_ >>
                    ELSE /\ last'.outcome = "NotFound"
                         /\ UNCHANGED << heapFolders, heapFiles >> ]_vars

\* an updateFile has replaced the content of a file by "huhu", size 4
C10_Witness ==
    /\ last.op = "updateFile"
    /\ last.outcome = "ok"
    /\ \E x \in DOMAIN heapFiles :
          /\ heapFiles[x].destroyed = 0
          /\ heapFiles[x].content_ = <<"h", "u", "h", "u">>
          /\ heapFiles[x].fileSize_ = 4


\* the file objects of folder f, by name
FilesOf(fo, fi, f) == [ n \in DOMAIN fo[f].files_ |-> fi[fo[f].files_[n]] ]

\* C11: folder names and file names are separate namespaces of a folder:
\* createFile(n) fails with AlreadyExists exactly when the current folder
\* has a file n, createFolder(n) exactly when it has a folder n; and a
\* create or delete of the one kind leaves the entries, the count and the
\* objects of the other kind in the current folder as they were.
C11_SeparateNamespaces ==
    [][ last'.op \in { "createFile", "createFolder",
                       "deleteFile", "deleteFolder" } =>
        \A m \in managers : \A n \in SharedNames :
          LET F == currentDirPointer_[m]
              foldersKept ==
                  /\ heapFolders'[F].folders_ = heapFolders[F].folders_
                  /\ heapFolders'[F].foldersCount_ =
                         heapFolders[F].foldersCount_
                  /\ \A g \in (DOMAIN heapFolders) \ {F} :
                         /\ g \in DOMAIN heapFolders'
                         /\ heapFolders'[g] = heapFolders[g]
              filesKept ==
                  /\ heapFolders'[F].files_ = heapFolders[F].files_
                  /\ heapFolders'[F].filesCount_ = heapFolders[F].filesCount_
                  /\ FilesOf(heapFolders', heapFiles', F) =
                         FilesOf(heapFolders, heapFiles, F)
          IN  Live(F) =>
                /\ ( \E t \in Contents : createFile(m, n, t, FALSE) )
                      => /\ ( last'.outcome = "AlreadyExists"
                                <=> n \in DOMAIN heapFolders[F].files_ )
                         /\ last'.outcome \in { "AlreadyExists", "ok" }
                         /\ foldersKept
                /\ createFolder(m, n, FALSE)
                      => /\ ( last'.outcome = "AlreadyExists"
                                <=> n \in DOMAIN heapFolders[F].folders_ )
                         /\ last'.outcome \in { "AlreadyExists", "ok" }
                         /\ filesKept
                /\ deleteFile(m, n, FALSE) => foldersKept
                /\ deleteFolder(m, n, "no") => filesKept ]_vars

\* a createFile has succeeded under a name that a live child folder of the
\* current folder has too
C11_Witness ==
    /\ last.op = "createFile"
    /\ last.outcome = "ok"
    /\ \E m \in managers : \E n \in SharedNames :
          LET F == currentDirPointer_[m]
          IN  /\ Live(F)
              /\ n \in DOMAIN heapFolders[F].files_
              /\ n \in DOMAIN heapFolders[F].folders_
              /\ Live(heapFolders[F].folders_[n])

\* the operations that take a bare name
NamedOps == MutatingOps \cup { "printFileContents" }

\* C12: for a name that contains the separator, createFolder, createFile,
\* updateFile, deleteFolder, deleteFile and printFileContents end with
\* InvalidName, recovered inside the call, whatever the tree holds (the name
\* is checked before the folder is looked at), and nothing is changed.
C12_SeparatorNamesAreInvalid ==
    [][ last'.op \in NamedOps =>
        \A m \in managers : \A n \in FolderNames \cup FileNames :
          ( /\ HasSeparator(n)
            /\ \/ createFolder(m, n, FALSE)
               \/ \E t \in Contents : createFile(m, n, t, FALSE)
               \/ \E t \in Contents : updateFile(m, n, t, FALSE)
               \/ deleteFolder(m, n, "no")
               \/ deleteFile(m, n, FALSE)
               \/ printFileContents(m, n, FALSE) )
          => /\ last'.outcome = "InvalidName"
             /\ ~last'.escaped
             /\ UNCHANGED << heapFolders, heapFiles, currentDirPointer_,
                             currentDirPath_, process >> ]_vars

\* a call with a name that contains the separator has ended with
\* InvalidName in a folder other than the root, in a tree that holds a file
C12_Witness ==
    /\ last.op \in NamedOps
    /\ last.outcome = "InvalidName"
    /\ \E m \in managers :
          /\ currentDirPointer_[m] # rootFolder
          /\ Live(currentDirPointer_[m])
    /\ \E x \in DOMAIN heapFiles : heapFiles[x].destroyed = 0

\* the segments r joined by single separators
RECURSIVE Join(_)
Join(r) ==
    IF r = <<>> THEN <<>>
    ELSE IF Len(r) = 1 THEN r[1]
    ELSE r[1] \o Slash \o Join(Tail(r))

\* the path begins with the separator or has two separators in a row
Malformed(path) ==
    \/ Len(path) > 0 /\ path[1] = SEP
    \/ \E i \in 1..(Len(path) - 1) : path[i] = SEP /\ path[i + 1] = SEP

\* C13: splitFilePath rejects exactly the paths that begin with "/" or hold
\* two "/" in a row (at the end too); of every other path it gives the
\* separator-free segments in order, none of them empty, a single trailing
\* "/" adding no segment, and of the empty path the empty sequence.
C13_SplitGivesSegmentsOrRejects ==
    splitResult.called =>
        /\ splitResult.thrown <=> Malformed(splitArgument)
        /\ ~splitResult.thrown =>
              LET r == splitResult.splits
              IN  /\ \A i \in 1..Len(r) :
                        Len(r[i]) > 0 /\ ~HasSeparator(r[i])
                  /\ splitArgument \in { Join(r), Join(r) \o Slash }
                  /\ ( splitArgument = Empty ) <=> ( r = <<>> )

\* splitFilePath has split a path of two segments that ends in a separator
C13_Witness ==
    /\ splitResult.called
    /\ ~splitResult.thrown
    /\ Len(splitResult.splits) = 2
    /\ Len(splitArgument) > 0
    /\ splitArgument[Len(splitArgument)] = SEP

\* C14: teardown destroys what the torn-down folder owns exactly once and
\* nothing else: no folder and no file is ever destroyed twice, none is left
\* undestroyed when the storage has been destroyed, and after a deleteFolder
\* (of any accepted name, ".." too) the current folder, its parent and its
\* ancestors are not destroyed.
C14_TeardownDestroysOwnedOnce ==
    /\ \A f \in DOMAIN heapFolders : heapFolders[f].destroyed <= 1
    /\ \A x \in DOMAIN heapFiles : heapFiles[x].destroyed <= 1
    /\ storageDeleted =>
          /\ \A f \in DOMAIN heapFolders : heapFolders[f].destroyed >= 1
          /\ \A x \in DOMAIN heapFiles : heapFiles[x].destroyed >= 1
    /\ ( last.op = "deleteFolder" /\ last.outcome = "ok" ) =>
          \A m \in managers : \A g \in DOMAIN heapFolders :
             ( \/ g = currentDirPointer_[m]
               \/ HasAncestor(heapFolders, currentDirPointer_[m], g) )
             => heapFolders[g].destroyed = 0

\* the folder that the segments lead to from f, a segment ".." leading to
\* the parent and any other one to the child of that name; nullptr when a
\* segment leads nowhere
RECURSIVE Resolve(_, _, _)
Resolve(fo, f, segments) ==
    IF segments = <<>> THEN f
    ELSE LET n == Head(segments)
             next == IF n = DotDot THEN fo[f].parentFolder_
                     ELSE IF n \in DOMAIN fo[f].folders_
                          THEN fo[f].folders_[n]
                          ELSE nullptr
         IN  IF next = nullptr THEN nullptr
             ELSE Resolve(fo, next, Tail(segments))

\* C15: a changeDirectory(dest, relative) that succeeds with dest other than
\* the current path string leaves the manager in the folder that dest's
\* segments lead to (".." leading to the parent), from the old current
\* folder if relative and from the root otherwise, with dest itself as the
\* current path string, and leaves the tree as it was.
C15_ChangeDirectoryFollowsSegments ==
    [][ ( last'.op = "changeDirectory" /\ last'.outcome = "ok"
          /\ process' = "running" ) =>
        \A m \in managers : \A d \in Destinations : \A r \in BOOLEAN :
          ( /\ Live(currentDirPointer_[m])
            /\ changeDirectory(m, d, r, FALSE) )
          => /\ currentDirPointer_'[m] =
                    Resolve(heapFolders,
                            IF r THEN currentDirPointer_[m] ELSE rootFolder,
                            splitFilePath(d).splits)
             /\ currentDirPath_'[m] = d
             /\ UNCHANGED << heapFolders, heapFiles >> ]_vars

\* what follows the last "." of the name; empty when it has none
AfterLastDot(name) ==
    LET dots == { i \in 1..Len(name) : name[i] = DOT }
    IN  IF dots = {} THEN Empty
        ELSE SubSeq(name, (CHOOSE d \in dots : \A e \in dots : e <= d) + 1,
                    Len(name))

\* C16: the extension stored in a file is the part of its name that follows
\* the last "." (empty when the name has no "." or ends with one).
C16_ExtensionIsSuffixAfterLastDot ==
    \A f \in DOMAIN heapFolders : \A n \in DOMAIN heapFolders[f].files_ :
        LET x == heapFolders[f].files_[n]
        IN  ( Live(f) /\ heapFiles[x].destroyed = 0 )
               => heapFiles[x].fileExtension_ = AfterLastDot(n)

\* the folders reached from those of S through owned child links
RECURSIVE OwnedFrom(_)
OwnedFrom(S) ==
    LET T == S \cup UNION { { heapFolders[f].folders_[n] : n \in OwnedNames(f) } :
                             f \in S }
    IN  IF T = S THEN S ELSE OwnedFrom(T)

\* C17: as long as the storage exists, the root is live and the manager's
\* current folder is a live folder that is reached from the root through
\* owned child links.
C17_CurrentFolderLiveAndOwned ==
    ~storageDeleted =>
        /\ Live(rootFolder)
        /\ \A m \in managers :
              /\ Live(currentDirPointer_[m])
              /\ currentDirPointer_[m] \in OwnedFrom({ rootFolder })

\* C18: with two managers on one storage, whatever the order of their
\* calls, no manager's current folder is a destroyed folder: a deleteFolder
\* made through one manager does not destroy the folder the other is in.
C18_NoManagerInDestroyedFolder ==
    \A m \in managers : heapFolders[currentDirPointer_[m]].destroyed = 0

\* resolving the destination d in full, as changeDirectory does when d is
\* not the current path, would take manager m to another folder
LeadsElsewhere(m, d, relative) ==
    LET start == IF relative THEN currentDirPointer_[m] ELSE rootFolder
        split == splitFilePath(d)
        walk  == Walk(heapFolders, start, split.splits, FALSE)
    IN  /\ ~split.thrown
        /\ walk.found
        /\ walk.pointer # currentDirPointer_[m]

C20_FullPathsAreUnique ==
    /\ \A f, g \in DOMAIN heapFolders :
          ( f # g /\ Live(f) /\ Live(g) )
             => heapFolders[f].fullPath_ # heapFolders[g].fullPath_
    /\ \A x, y \in DOMAIN heapFiles :
          ( x # y /\ heapFiles[x].destroyed = 0 /\ heapFiles[y].destroyed = 0 )
             => heapFiles[x].fullPath_ # heapFiles[y].fullPath_

=============================================================================
